---------------------------- MODULE Spec2Model ----------------------------
(***************************************************************************)
(* Model of src/models/user.ts: postUser (the two-entity write of a User   *)
(* and its UserCredential with the compensating delete), getUserInfo, and  *)
(* the refreshToken controller exercised by test/functional/controllers/   *)
(* auth.ts.                                                                *)
(*                                                                         *)
(* Every awaited repository call is one atomic step of the database; the   *)
(* code between two awaits belongs to the step that precedes it.  The      *)
(* password update started by postUser is NOT awaited by the code, so its  *)
(* settlement is a step of its own that may be scheduled anywhere after    *)
(* the call that started it.                                               *)
(*                                                                         *)
(* Optional values (a property that may be undefined) are sequences of     *)
(* length at most one: <<>> is undefined, <<v>> is the value v.            *)
(***************************************************************************)
EXTENDS Integers, Sequences, FiniteSets, TLC

\* ------------------------------------------------------------- bounds --
\* Number of postUser calls that may be in flight at the same time.
NumCalls == 2
\* Number of ids the auto-increment key of User may hand out.
MaxId == 2

\* ---------------------------------------------------------- constants --
\* UserPrivilege.isEnabled
isEnabled == 1
\* MySQL errno of a duplicate key (ER_DUP_ENTRY)
ER_DUP_ENTRY == 1062
\* Any other errno of a failed statement
ER_OTHER == 1

Undefined == <<>>
Some(v) == <<v>>
Val(o) == o[1]
IsDefined(o) == o # Undefined

Calls == 1..NumCalls
Ids == 1..MaxId

Privileges == {0, isEnabled}
Passwords == {"pw1"}
\* <<email, username>> pairs of well-formed requests.
Identities ==
  { <<Some("e1"), Some("u1")>>, <<Some("e2"), Some("u2")>> }
\* ... and of requests that miss one of the two.
InvalidIdentities ==
  { <<Undefined, Some("u1")>>, <<Some("e2"), Undefined>> }

\* The hash a completed updatePassword leaves in the credential.
EmptyHash == <<>>
HashOf(password) == <<"hash", password>>

\* ------------------------------------------------------------ entities --
\* new User(): every column undefined.
NewUser ==
  [id |-> Undefined, email |-> Undefined, username |-> Undefined,
   privilege |-> Undefined, nickname |-> Undefined, sex |-> Undefined,
   motto |-> Undefined, description |-> Undefined, createdAt |-> Undefined]

\* new UserCredential(): no hash yet.
NewUserCredential == [hash |-> EmptyHash]

\* The inputs of postUser (the `data` argument).
NoProfile ==
  [nickname |-> Undefined, sex |-> Undefined,
   motto |-> Undefined, description |-> Undefined]
ProfileInputs ==
  { NoProfile,
    [nickname |-> Some("n"), sex |-> Some("s"),
     motto |-> Some("m"), description |-> Some("d")] }

DataOf(id, email, username, privilege, password, profile) ==
  [id |-> id, email |-> email, username |-> username,
   privilege |-> privilege, password |-> password,
   nickname |-> profile.nickname, sex |-> profile.sex,
   motto |-> profile.motto, description |-> profile.description]

NoData ==
  DataOf(Undefined, Undefined, Undefined, Undefined, Undefined, NoProfile)

VARIABLES
  users,           \* table User: id -> row
  userCredentials, \* table UserCredential, keyed by the id of its user
  nextId,          \* auto-increment counter of User.id
  need_confirmation, \* config.oj.policy.signup.need_confirmation
  pc,              \* per call: where it is suspended
  data,            \* per call: the argument of postUser
  user,            \* per call: the in-memory User
  userCredential,  \* per call: the in-memory UserCredential
  passwordUpdate,  \* per call: state of the un-awaited updatePassword promise
  result,          \* per call: what the call returned or threw, and its trail
  refresh          \* the last refreshToken request and its response

vars == <<users, userCredentials, nextId, need_confirmation, pc, data, user,
          userCredential, passwordUpdate, result, refresh>>

\* JavaScript truthiness of an optional value (the model's values are all
\* truthy, so only undefined is falsy).
Truthy(o) == IsDefined(o)

\* Mutant of Patch: the input is assigned even when it is undefined.
PatchAlways(stored, input) == input

\* `x = input === undefined ? x : input`
Patch(stored, input) == IF input = Undefined THEN stored ELSE input

OptionalIds == {Undefined} \cup {Some(i) : i \in Ids}
OptionalPrivileges == {Undefined} \cup {Some(v) : v \in Privileges}
OptionalPasswords == {Undefined} \cup {Some(w) : w \in Passwords}

\* Requests without email or username: they stop at the parameter check.
InvalidData ==
  { DataOf(Undefined, idn[1], idn[2], Undefined, Undefined, NoProfile) :
      idn \in InvalidIdentities }

\* The requests of the sequential specification.
Data ==
  { DataOf(id, idn[1], idn[2], privilege, password, profile) :
      id \in OptionalIds, idn \in Identities,
      privilege \in OptionalPrivileges, password \in OptionalPasswords,
      profile \in ProfileInputs } \cup InvalidData

\* The requests of the specification with refreshToken: creations and
\* privilege changes.
DataRefresh ==
  { DataOf(id, idn[1], idn[2], privilege, Undefined, NoProfile) :
      id \in OptionalIds, idn \in Identities,
      privilege \in OptionalPrivileges }

\* The requests of the concurrent specification: creations, and updates of
\* the first user.
DataConcurrent ==
  { DataOf(id, idn[1], idn[2], Undefined, Undefined, NoProfile) :
      id \in {Undefined, Some(1)}, idn \in Identities }

NoResult ==
  [outcome |-> "none", status |-> 0, message |-> "",
   found |-> FALSE, userSaved |-> FALSE, userSaveErrno |-> 0,
   credentialSaveAttempted |-> FALSE, removed |-> "none"]

Thrown(r, status, message) ==
  [r EXCEPT !.outcome = "thrown", !.status = status, !.message = message]

NoRefresh == [ctxUser |-> Undefined, status |-> 0, token |-> Undefined]

\* ------------------------------------------------------------- getUserInfo --
Columns == {"id", "username", "email"}

\* Mutant of FindOneUser: the where clause is dropped.
FindOneUserAny(by, value) ==
  IF DOMAIN users # {}
  THEN Some(users[CHOOSE i \in DOMAIN users : TRUE])
  ELSE Undefined

FindOneUser(by, value) ==
  IF \E i \in DOMAIN users : users[i][by] = Some(value)
  THEN Some(users[CHOOSE i \in DOMAIN users : users[i][by] = Some(value)])
  ELSE Undefined

\* getUserInfo(data, by): dbOk is whether the repository call succeeds.
getUserInfo(value, by, dbOk) ==
  IF ~Truthy(value) \/ by \notin Columns
  THEN [status |-> 500, message |-> "Invalid parameters.", userInfo |-> Undefined]
  ELSE IF ~dbOk
  THEN [status |-> 500, message |-> "Database operation failed.",
        userInfo |-> Undefined]
  ELSE [status |-> 200, message |-> "", userInfo |-> FindOneUser(by, Val(value))]

\* ---------------------------------------------------------------- postUser --
\* Privilege of a new user (the create branch).
InitialPrivilege(u) ==
  IF need_confirmation /\ ~Truthy(u.createdAt) THEN 0 ELSE isEnabled

\* Mutant of CreateBranch: the privilege of the input overrides the policy.
CreateBranchInputPrivilege(d) ==
  [user |-> [NewUser EXCEPT !.privilege =
               Patch(Some(InitialPrivilege(NewUser)), d.privilege)],
   userCredential |-> NewUserCredential]

\* The create branch: new entities, privilege from the signup policy.
CreateBranch(d) ==
  [user |-> [NewUser EXCEPT !.privilege = Some(InitialPrivilege(NewUser))],
   userCredential |-> NewUserCredential]

\* The update branch: the loaded entities, privilege patched from the input.
UpdateBranch(d, loadedUser, loadedCredential) ==
  [user |-> [loadedUser EXCEPT !.privilege = Patch(@, d.privilege)],
   userCredential |-> loadedCredential]

\* `if (data.password) userCredential.updatePassword(...)`, not awaited.
StartUpdatePassword(d) == IF Truthy(d.password) THEN "pending" ELSE "none"

\* The six field assignments that follow the password update.
AssignFields(u, d) ==
  [u EXCEPT !.email = Patch(@, d.email),
            !.username = Patch(@, d.username),
            !.nickname = Patch(@, d.nickname),
            !.sex = Patch(@, d.sex),
            !.motto = Patch(@, d.motto),
            !.description = Patch(@, d.description)]

\* Call p is entered with argument d and runs to its first await.
PostUser(p, d) ==
  /\ pc[p] = "idle"
  /\ data' = [data EXCEPT ![p] = d]
  /\ IF ~(Truthy(d.email) /\ Truthy(d.username))
     THEN /\ pc' = [pc EXCEPT ![p] = "thrown"]
          /\ result' = [result EXCEPT ![p] =
                          Thrown(NoResult, 500, "Invalid parameters.")]
          /\ UNCHANGED <<user, userCredential, passwordUpdate>>
     ELSE IF Truthy(d.id)
     THEN /\ pc' = [pc EXCEPT ![p] = "findOne"]
          /\ result' = [result EXCEPT ![p] = NoResult]
          /\ UNCHANGED <<user, userCredential, passwordUpdate>>
     ELSE LET b == CreateBranch(d) IN
          /\ pc' = [pc EXCEPT ![p] = "saveUser"]
          /\ result' = [result EXCEPT ![p] = NoResult]
          /\ user' = [user EXCEPT ![p] = AssignFields(b.user, d)]
          /\ userCredential' = [userCredential EXCEPT ![p] = b.userCredential]
          /\ passwordUpdate' =
               [passwordUpdate EXCEPT ![p] = StartUpdatePassword(d)]
  /\ UNCHANGED <<users, userCredentials, nextId, need_confirmation, refresh>>

\* The joined lookup of the update branch: the credential of user `id` together
\* with that user (an inner join: both rows must exist).
FindOneCredential(id) ==
  IF id \in DOMAIN userCredentials /\ id \in DOMAIN users
  THEN Some([userCredential |-> userCredentials[id], user |-> users[id]])
  ELSE Undefined

\* The awaited findOne of the update branch rejects.
FindOneError(p) ==
  /\ pc[p] = "findOne"
  /\ pc' = [pc EXCEPT ![p] = "thrown"]
  /\ result' = [result EXCEPT ![p] =
                  Thrown(@, 500, "Database operation failed.")]
  /\ UNCHANGED <<users, userCredentials, nextId, need_confirmation, data, user,
                 userCredential, passwordUpdate, refresh>>

\* The awaited findOne resolves; the call runs on to `await save(user)`.
FindOne(p) ==
  /\ pc[p] = "findOne"
  /\ LET userCredentialInfo == FindOneCredential(Val(data[p].id)) IN
     IF ~Truthy(userCredentialInfo)
     THEN /\ pc' = [pc EXCEPT ![p] = "thrown"]
          /\ result' = [result EXCEPT ![p] =
                          Thrown(@, 400, "User does not exist.")]
          /\ UNCHANGED <<user, userCredential, passwordUpdate>>
     ELSE LET b == UpdateBranch(data[p], Val(userCredentialInfo).user,
                                Val(userCredentialInfo).userCredential) IN
          /\ pc' = [pc EXCEPT ![p] = "saveUser"]
          /\ result' = [result EXCEPT ![p].found = TRUE]
          /\ user' = [user EXCEPT ![p] = AssignFields(b.user, data[p])]
          /\ userCredential' = [userCredential EXCEPT ![p] = b.userCredential]
          /\ passwordUpdate' =
               [passwordUpdate EXCEPT ![p] = StartUpdatePassword(data[p])]
  /\ UNCHANGED <<users, userCredentials, nextId, need_confirmation, data,
                 refresh>>

\* The un-awaited updatePassword settles: on success the in-memory credential
\* gets the hash of the password.
UpdatePasswordResolve(p) ==
  /\ passwordUpdate[p] = "pending"
  /\ pc[p] \in {"saveUser", "saveCredential", "remove"}
  /\ passwordUpdate' = [passwordUpdate EXCEPT ![p] = "resolved"]
  /\ userCredential' = [userCredential EXCEPT ![p].hash =
                          HashOf(Val(data[p].password))]
  /\ UNCHANGED <<users, userCredentials, nextId, need_confirmation, pc, data,
                 user, result, refresh>>

\* It rejects: the .catch handler logs and throws inside a promise that
\* nothing awaits, so postUser itself is not affected.
UpdatePasswordReject(p) ==
  /\ passwordUpdate[p] = "pending"
  /\ pc[p] \in {"saveUser", "saveCredential", "remove"}
  /\ passwordUpdate' = [passwordUpdate EXCEPT ![p] = "rejected"]
  /\ UNCHANGED <<users, userCredentials, nextId, need_confirmation, pc, data,
                 user, userCredential, result, refresh>>

\* The unique keys of User: another row has the same email or username.
Duplicate(u) ==
  \E j \in DOMAIN users :
    /\ Some(j) # u.id
    /\ users[j].email = u.email \/ users[j].username = u.username

\* Mutant of UserSaveError: the errno is not looked at.
UserSaveErrorGeneric(errno) ==
  [status |-> 500, message |-> "Database operation failed."]

\* The .catch of userRepository.save(user).
UserSaveError(errno) ==
  IF errno = ER_DUP_ENTRY
  THEN [status |-> 400, message |-> "Username or email taken."]
  ELSE [status |-> 500, message |-> "Database operation failed."]

\* save(user) rejects: with errno 1062 when a unique key is violated, with
\* another errno for any other failure of the database.
SaveUserError(p, errno) ==
  /\ pc[p] = "saveUser"
  /\ errno = ER_DUP_ENTRY => Duplicate(user[p])
  /\ pc' = [pc EXCEPT ![p] = "thrown"]
  /\ LET e == UserSaveError(errno) IN
     result' = [result EXCEPT ![p] =
                  Thrown([@ EXCEPT !.userSaveErrno = errno],
                         e.status, e.message)]
  /\ UNCHANGED <<users, userCredentials, nextId, need_confirmation, data, user,
                 userCredential, passwordUpdate, refresh>>

\* The row save(user) writes: an entity without id is inserted under the next
\* id and gets its createdAt; one with an id replaces (or re-creates) its row.
SavedUser(u) ==
  IF Truthy(u.id) THEN u
  ELSE [u EXCEPT !.id = Some(nextId), !.createdAt = Some(nextId)]

\* save(user) resolves; the call runs on to `await save(userCredential)`.
SaveUser(p) ==
  /\ pc[p] = "saveUser"
  /\ ~Duplicate(user[p])
  /\ ~Truthy(user[p].id) => nextId <= MaxId
  /\ LET row == SavedUser(user[p]) IN
     /\ users' = (Val(row.id) :> row) @@ users
     /\ user' = [user EXCEPT ![p] = row]
  /\ nextId' = IF Truthy(user[p].id) THEN nextId ELSE nextId + 1
  /\ pc' = [pc EXCEPT ![p] = "saveCredential"]
  /\ result' = [result EXCEPT ![p].userSaved = TRUE]
  /\ UNCHANGED <<userCredentials, need_confirmation, data, userCredential,
                 passwordUpdate, refresh>>

\* The foreign key of UserCredential.user: a credential row references an
\* existing user row.
ForeignKeyHolds(id) == id \in DOMAIN users

\* save(userCredential) resolves: the row of the user's credential now holds
\* what the in-memory credential holds; postUser returns the user.
SaveCredential(p) ==
  /\ pc[p] = "saveCredential"
  /\ ForeignKeyHolds(Val(user[p].id))
  /\ userCredentials' = (Val(user[p].id) :> userCredential[p]) @@ userCredentials
  /\ pc' = [pc EXCEPT ![p] = "returned"]
  /\ result' = [result EXCEPT ![p].outcome = "returned", ![p].status = 200,
                              ![p].credentialSaveAttempted = TRUE]
  /\ UNCHANGED <<users, nextId, need_confirmation, data, user, userCredential,
                 passwordUpdate, refresh>>

\* Mutant of SaveCredentialError: the handler throws without reverting.
SaveCredentialErrorNoRevert(p) ==
  /\ pc[p] = "saveCredential"
  /\ pc' = [pc EXCEPT ![p] = "thrown"]
  /\ result' = [result EXCEPT ![p] =
                  Thrown([@ EXCEPT !.credentialSaveAttempted = TRUE],
                         500, "Database operation failed.")]
  /\ UNCHANGED <<users, userCredentials, nextId, need_confirmation, data, user,
                 userCredential, passwordUpdate, refresh>>

\* save(userCredential) rejects; its handler issues the compensating remove.
SaveCredentialError(p) ==
  /\ pc[p] = "saveCredential"
  /\ pc' = [pc EXCEPT ![p] = "remove"]
  /\ result' = [result EXCEPT ![p].credentialSaveAttempted = TRUE]
  /\ UNCHANGED <<users, userCredentials, nextId, need_confirmation, data, user,
                 userCredential, passwordUpdate, refresh>>

\* Mutant of CredentialSaveError: the failed remove is not told apart.
CredentialSaveErrorGeneric(removeFailed) ==
  [status |-> 500, message |-> "Database operation failed."]

\* What the handler of the failed credential save throws.
CredentialSaveError(removeFailed) ==
  IF removeFailed
  THEN [status |-> 500,
        message |-> "Database operation failed. Reverting failed as well."]
  ELSE [status |-> 500, message |-> "Database operation failed."]

\* Mutant of Removed: nothing is deleted.
RemovedNothing(table, id) == table

\* A table after the row of `id` is deleted from it.
Removed(table, id) == [i \in DOMAIN table \ {id} |-> table[i]]

\* Deleting a user deletes the credential that references it.
CascadeDelete(id) == Removed(userCredentials, id)

\* remove(user) resolves.
Remove(p) ==
  /\ pc[p] = "remove"
  /\ users' = Removed(users, Val(user[p].id))
  /\ userCredentials' = CascadeDelete(Val(user[p].id))
  /\ pc' = [pc EXCEPT ![p] = "thrown"]
  /\ LET e == CredentialSaveError(FALSE) IN
     result' = [result EXCEPT ![p] =
                  Thrown([@ EXCEPT !.removed = "ok"], e.status, e.message)]
  /\ UNCHANGED <<nextId, need_confirmation, data, user, userCredential,
                 passwordUpdate, refresh>>

\* remove(user) rejects.
RemoveError(p) ==
  /\ pc[p] = "remove"
  /\ pc' = [pc EXCEPT ![p] = "thrown"]
  /\ LET e == CredentialSaveError(TRUE) IN
     result' = [result EXCEPT ![p] =
                  Thrown([@ EXCEPT !.removed = "failed"], e.status, e.message)]
  /\ UNCHANGED <<users, userCredentials, nextId, need_confirmation, data, user,
                 userCredential, passwordUpdate, refresh>>

\* The caller has taken the outcome; the slot is free for the next call.
Settle(p) ==
  /\ pc[p] \in {"returned", "thrown"}
  /\ pc' = [pc EXCEPT ![p] = "idle"]
  /\ data' = [data EXCEPT ![p] = NoData]
  /\ user' = [user EXCEPT ![p] = NewUser]
  /\ userCredential' = [userCredential EXCEPT ![p] = NewUserCredential]
  /\ passwordUpdate' = [passwordUpdate EXCEPT ![p] = "none"]
  /\ result' = [result EXCEPT ![p] = NoResult]
  /\ UNCHANGED <<users, userCredentials, nextId, need_confirmation, refresh>>

\* ------------------------------------------------------------ refreshToken --
\* ctx.state.user as the token middleware leaves it: undefined when the token
\* is missing, malformed or expired, otherwise the claims of the token.
CtxUsers ==
  {Undefined} \cup { Some([id |-> i, privilege |-> v]) :
                       i \in Ids, v \in Privileges }

\* generateToken: the claims of the token minted for a user.
generateToken(userInfo) ==
  [id |-> Val(userInfo.id), privilege |-> Val(userInfo.privilege)]

\* The controller: 401 without validated claims; the identity is read again
\* through getUserInfo and must exist and be enabled; then a token is minted.
refreshToken(ctxUser, dbOk) ==
  IF ~Truthy(ctxUser)
  THEN [ctxUser |-> ctxUser, status |-> 401, token |-> Undefined]
  ELSE LET r == getUserInfo(Some(Val(ctxUser).id), "id", dbOk) IN
       IF r.status # 200
       THEN [ctxUser |-> ctxUser, status |-> r.status, token |-> Undefined]
       ELSE IF ~Truthy(r.userInfo) \/ Val(r.userInfo).privilege = Some(0)
       THEN [ctxUser |-> ctxUser, status |-> 401, token |-> Undefined]
       ELSE [ctxUser |-> ctxUser, status |-> 200,
             token |-> Some(generateToken(Val(r.userInfo)))]

RefreshToken(ctxUser, dbOk) ==
  /\ refresh' = refreshToken(ctxUser, dbOk)
  /\ UNCHANGED <<users, userCredentials, nextId, need_confirmation, pc, data,
                 user, userCredential, passwordUpdate, result>>

\* ------------------------------------------------------------ specification --
Init ==
  /\ users = <<>>
  /\ userCredentials = <<>>
  /\ nextId = 1
  /\ need_confirmation \in BOOLEAN
  /\ pc = [p \in Calls |-> "idle"]
  /\ data = [p \in Calls |-> NoData]
  /\ user = [p \in Calls |-> NewUser]
  /\ userCredential = [p \in Calls |-> NewUserCredential]
  /\ passwordUpdate = [p \in Calls |-> "none"]
  /\ result = [p \in Calls |-> NoResult]
  /\ refresh = NoRefresh

\* One postUser call at a time.
Next ==
  \/ \E d \in Data : PostUser(1, d)
  \/ FindOne(1)
  \/ FindOneError(1)
  \/ UpdatePasswordResolve(1)
  \/ UpdatePasswordReject(1)
  \/ SaveUser(1)
  \/ \E errno \in {ER_DUP_ENTRY, ER_OTHER} : SaveUserError(1, errno)
  \/ SaveCredential(1)
  \/ SaveCredentialError(1)
  \/ Remove(1)
  \/ RemoveError(1)
  \/ Settle(1)

Spec == Init /\ [][Next]_vars

\* One postUser call at a time, and refreshToken requests at any moment.
NextRefresh ==
  \/ \E d \in DataRefresh : PostUser(1, d)
  \/ FindOne(1)
  \/ FindOneError(1)
  \/ SaveUser(1)
  \/ \E errno \in {ER_DUP_ENTRY, ER_OTHER} : SaveUserError(1, errno)
  \/ SaveCredential(1)
  \/ SaveCredentialError(1)
  \/ Remove(1)
  \/ RemoveError(1)
  \/ Settle(1)
  \/ \E c \in CtxUsers, dbOk \in BOOLEAN : RefreshToken(c, dbOk)

SpecRefresh == Init /\ [][NextRefresh]_vars

\* NumCalls postUser calls in flight, their steps interleaved in any order.
\* Every read and write may fail, except the compensating remove.
NextConcurrent ==
  \/ \E p \in Calls, d \in DataConcurrent : PostUser(p, d)
  \/ \E p \in Calls : FindOne(p)
  \/ \E p \in Calls : FindOneError(p)
  \/ \E p \in Calls : SaveUser(p)
  \/ \E p \in Calls, errno \in {ER_DUP_ENTRY, ER_OTHER} : SaveUserError(p, errno)
  \/ \E p \in Calls : SaveCredential(p)
  \/ \E p \in Calls : SaveCredentialError(p)
  \/ \E p \in Calls : Remove(p)
  \/ \E p \in Calls : Settle(p)

SpecConcurrent == Init /\ [][NextConcurrent]_vars

\* ================================================================= claims ==
\* The id of the user a call works on, once it has one.
IdOf(p) == Val(user[p].id)

\* No call is between two of its steps.
Quiescent == \A p \in Calls : pc[p] \in {"idle", "returned", "thrown"}

GenericError == "Database operation failed."
RevertError == "Database operation failed. Reverting failed as well."

\* ---------------------------------------------------------------------- C1
\* The rows of the user of call p, as getUserInfo and the credential table
\* show them.
FindsUser(p) == Truthy(getUserInfo(user[p].id, "id", TRUE).userInfo)
HasCredential(p) == IdOf(p) \in DOMAIN userCredentials

\* C1 as stated: a call whose User write succeeded and whose UserCredential
\* write failed has, when it fails, left nothing behind (getUserInfo by that
\* id finds nothing, no credential row); a call that returns has both rows
\* persisted.
C1_AllOrNothing ==
  [][\A p \in Calls :
       /\ (pc[p] # "thrown" /\ pc'[p] = "thrown" /\ result'[p].userSaved
             /\ result'[p].credentialSaveAttempted)
            => (~FindsUser(p) /\ ~HasCredential(p))'
       /\ (pc[p] # "returned" /\ pc'[p] = "returned")
            => (FindsUser(p) /\ HasCredential(p))']_vars

\* C1 amended: the same, for the calls whose compensating remove succeeded;
\* when the remove fails too, the User row stays behind.
C1_AllOrNothingWhenRemoved ==
  [][\A p \in Calls :
       /\ (pc[p] # "thrown" /\ pc'[p] = "thrown" /\ result'[p].userSaved
             /\ result'[p].credentialSaveAttempted)
            => /\ result'[p].removed \in {"ok", "failed"}
               /\ result'[p].removed = "ok"
                    => (~FindsUser(p) /\ ~HasCredential(p))'
               /\ result'[p].removed = "failed" => FindsUser(p)'
       /\ (pc[p] # "returned" /\ pc'[p] = "returned")
            => (FindsUser(p) /\ HasCredential(p))']_vars

\* An update call (the credential row existed before) failed its credential
\* write and its compensating remove succeeded.
C1_Witness ==
  \E p \in Calls :
    /\ pc[p] = "thrown" /\ result[p].userSaved /\ result[p].removed = "ok"
    /\ result[p].found

\* ---------------------------------------------------------------------- C2
\* C2: a User write that fails with errno 1062 makes the call fail with
\* 400 'Username or email taken.', which is not the generic 500 error; the
\* call has attempted no UserCredential write, and the step leaves the
\* UserCredential table as it was (as does every step of a call that has not
\* yet attempted its credential write).
C2_ConflictBeforeCredential ==
  /\ [](\A p \in Calls :
          result[p].userSaveErrno = ER_DUP_ENTRY
            => /\ pc[p] = "thrown"
               /\ result[p].status = 400
               /\ result[p].message = "Username or email taken."
               /\ result[p].message # GenericError
               /\ ~result[p].credentialSaveAttempted
               /\ ~result[p].userSaved)
  /\ [][(\A p \in Calls : ~result'[p].credentialSaveAttempted)
          => userCredentials' = userCredentials]_vars

\* A call failed on a duplicate email or username while the table holds a
\* credential.
C2_Witness ==
  \E p \in Calls :
    /\ pc[p] = "thrown" /\ result[p].userSaveErrno = ER_DUP_ENTRY
    /\ userCredentials # <<>>

\* ---------------------------------------------------------------------- C3
\* C3: after a failed UserCredential write the call throws the 'Reverting
\* failed as well.' error exactly when the compensating remove failed, and
\* the ordinary 'Database operation failed.' exactly when it succeeded.
C3_IrrecoverableIffRemoveFailed ==
  \A p \in Calls :
    (pc[p] = "thrown" /\ result[p].credentialSaveAttempted)
      => /\ result[p].removed \in {"ok", "failed"}
         /\ result[p].removed = "failed" <=> result[p].message = RevertError
         /\ result[p].removed = "ok" <=> result[p].message = GenericError
         /\ result[p].status = 500

\* A call whose credential write and compensating remove both failed.
C3_Witness ==
  \E p \in Calls :
    /\ pc[p] = "thrown" /\ result[p].credentialSaveAttempted
    /\ result[p].removed = "failed"

\* ---------------------------------------------------------------------- C4
\* C4: whenever all the concurrent calls have completed (and no compensating
\* remove has failed), a UserCredential row exists exactly for the ids that
\* have a User row.
C4_CredentialIffUser ==
  Quiescent => DOMAIN userCredentials = DOMAIN users

\* Two overlapping calls on the same identity: one removed it after a failed
\* credential write, the other (which had read it before) wrote it again.
C4_Witness ==
  \E p, q \in Calls :
    /\ p # q /\ Quiescent
    /\ pc[p] = "returned" /\ result[p].found
    /\ pc[q] = "thrown" /\ result[q].found /\ result[q].removed = "ok"
    /\ user[p].id = user[q].id
    /\ IdOf(p) \in DOMAIN users

\* ---------------------------------------------------------------------- C5
\* C5: once the calls have completed, every User that getUserInfo finds has a
\* UserCredential with a non-empty hash.
C5_FindableHasHash ==
  Quiescent =>
    \A i \in Ids :
      Truthy(getUserInfo(Some(i), "id", TRUE).userInfo)
        => /\ i \in DOMAIN userCredentials
           /\ userCredentials[i].hash # EmptyHash

\* ---------------------------------------------------------------------- C6
\* C6: a refreshToken request mints a token only if the token was validated
\* and the identity it names exists and is not disabled at that moment; a
\* request without validated claims gets 401, and so does one whose identity
\* the lookup finds missing or disabled; none of them gets a token.
C6_RefreshOnlyForLiveIdentity ==
  [][refresh' # refresh =>
       LET r == refresh'
           valid == Truthy(r.ctxUser)
           id == Val(r.ctxUser).id
           live == valid /\ id \in DOMAIN users
                     /\ users[id].privilege # Some(0)
       IN /\ Truthy(r.token) => live /\ r.status = 200
          /\ r.status = 200 => Truthy(r.token) /\ Val(r.token).id = id
                                 /\ Some(Val(r.token).privilege) =
                                      users[id].privilege
          /\ ~valid => r.status = 401
          /\ (~live /\ r.status # 500) => r.status = 401
          /\ ~live => r.token = Undefined]_vars

\* A request with unexpired claims of privilege 1 for an identity that was
\* created enabled (no confirmation policy) and has been disabled since was
\* answered 401.
C6_Witness ==
  /\ ~need_confirmation
  /\ Truthy(refresh.ctxUser)
  /\ Val(refresh.ctxUser).privilege = isEnabled
  /\ Val(refresh.ctxUser).id \in DOMAIN users
  /\ users[Val(refresh.ctxUser).id].privilege = Some(0)
  /\ refresh.status = 401 /\ refresh.token = Undefined

\* ---------------------------------------------------------------------- C7
\* C7: the row a create call has written carries privilege 0 when signup
\* needs confirmation and UserPrivilege.isEnabled otherwise, whatever
\* privilege the input carries.
C7_InitialPrivilege ==
  \A p \in Calls :
    (~Truthy(data[p].id) /\ result[p].userSaved
       /\ pc[p] \in {"saveCredential", "returned"})
      => /\ IdOf(p) \in DOMAIN users
         /\ users[IdOf(p)].privilege =
              Some(IF need_confirmation THEN 0 ELSE isEnabled)

\* A create call that asked for privilege 1 under the confirmation policy
\* returned.
C7_Witness ==
  \E p \in Calls :
    /\ ~Truthy(data[p].id) /\ pc[p] = "returned"
    /\ need_confirmation /\ data[p].privilege = Some(isEnabled)

\* ---------------------------------------------------------------------- C8
\* C8: the writes of an update call leave every one of privilege, nickname,
\* sex, motto and description that the input does not carry as stored, leave
\* id and createdAt as stored, and leave the password hash as stored when the
\* input carries no password.
PatchedFields == {"privilege", "nickname", "sex", "motto", "description"}

C8_UpdateFrame ==
  [][\A p \in Calls :
       /\ (result[p].found /\ pc[p] = "saveUser" /\ pc'[p] = "saveCredential")
            => LET id == Val(data[p].id) IN
               /\ id \in DOMAIN users /\ id \in DOMAIN users'
               /\ \A f \in PatchedFields :
                    data[p][f] = Undefined => users'[id][f] = users[id][f]
               /\ users'[id].id = users[id].id
               /\ users'[id].createdAt = users[id].createdAt
               /\ userCredentials' = userCredentials
       /\ (result[p].found /\ pc[p] = "saveCredential" /\ pc'[p] = "returned")
            => LET id == Val(data[p].id) IN
               /\ users' = users
               /\ id \in DOMAIN userCredentials
               /\ data[p].password = Undefined
                    => userCredentials'[id].hash = userCredentials[id].hash]_vars

\* An update call that carried neither profile fields nor privilege nor
\* password returned, on a user that has all of them.
C8_Witness ==
  \E p \in Calls :
    /\ pc[p] = "returned" /\ result[p].found
    /\ data[p].nickname = Undefined /\ data[p].privilege = Undefined
    /\ data[p].password = Undefined
    /\ users[IdOf(p)].nickname # Undefined
    /\ users[IdOf(p)].description # Undefined
    /\ userCredentials[IdOf(p)].hash # EmptyHash

\* ---------------------------------------------------------------------- C9
\* C9: a call made with a password that has returned has persisted the hash
\* of that password, its password update having completed before the
\* credential write; a failed password update never ends in a return.
C9_PasswordPersisted ==
  \A p \in Calls :
    (pc[p] = "returned" /\ Truthy(data[p].password))
      => /\ passwordUpdate[p] = "resolved"
         /\ IdOf(p) \in DOMAIN userCredentials
         /\ userCredentials[IdOf(p)].hash = HashOf(Val(data[p].password))

\* --------------------------------------------------------------------- C10
\* C10: an update call (the identity and its credential existed when the call
\* read them) that has failed leaves both rows in place.
C10_FailedUpdateKeepsAccount ==
  \A p \in Calls :
    (pc[p] = "thrown" /\ result[p].found)
      => /\ IdOf(p) \in DOMAIN users
         /\ IdOf(p) \in DOMAIN userCredentials

=============================================================================
